---- MODULE Spec2Model ----
(***************************************************************************)
(* aw-cli (src/aw_client/cli.py): the yes/no prompter, the duration text   *)
(* of events, the rendering of query results and the dispatch of a parsed  *)
(* command line to the calls on the ActivityWatch server.                  *)
(*                                                                         *)
(* A Python string (an argument, a typed answer, the text of a timedelta)  *)
(* is a sequence of one-character strings.  TLA+ strings are labels: the   *)
(* value of args.which, the kind of a printed line, the name of a call.    *)
(***************************************************************************)
EXTENDS Integers, Sequences, FiniteSets, TLC

VARIABLES
    pc,        \* position of the process: "start", "call", "prompt", "read", "returned",
               \* "done", "error", "fmt"
    args,      \* the argparse namespace of this invocation
    files,     \* the file system: path -> content or NoFile
    stored,    \* the events the server holds for the bucket
    calls,     \* the server calls issued so far, in order, each with its outcome
    out,       \* what was written to standard output, in order
    err,       \* the exception that ended the process, or NoError
    default,   \* _query_yes_no: its default argument
    typed,     \* _query_yes_no: the lines read from standard input so far
    answer,    \* _query_yes_no: its return value, or None
    dur,       \* duration formatting: the duration [seconds, microseconds] under test
    text       \* duration formatting: the text produced for dur

vars == <<pc, args, files, stored, calls, out, err, default, typed, answer, dur, text>>

\* Python's None.  Python strings are sequences of one-character strings, so
\* this one-element sequence equals no string.
None == <<"<None>">>

-----------------------------------------------------------------------------
(* Bounds of the model *)

\* longest period a query returns (the renderer shows ShowLimit of them)
MaxEvents == 11
\* most periods in one query result
MaxPeriods == 2
\* most events the server holds for a bucket
MaxStored == 3
\* largest --limit tried besides the default
MaxLimit == 2
\* most lines read from standard input by one prompt
MaxReads == 3
\* largest whole number of hours of a formatted duration
MaxHours == 49

-----------------------------------------------------------------------------
(* Text helpers *)

Min(a, b) == IF a < b THEN a ELSE b

DigitChar == <<"0", "1", "2", "3", "4", "5", "6", "7", "8", "9">>

\* "%d" of a natural number
RECURSIVE Digits(_)
Digits(n) ==
    IF n < 10 THEN <<DigitChar[n + 1]>>
    ELSE Digits(n \div 10) \o <<DigitChar[(n % 10) + 1]>>

\* "%02d"
Pad2(n) == IF n < 10 THEN <<"0">> \o Digits(n) ELSE Digits(n)

\* "%06d"
RECURSIVE PadTo(_, _)
PadTo(s, w) == IF Len(s) >= w THEN s ELSE PadTo(<<"0">> \o s, w)

\* position of the first c in s, or 0
RECURSIVE IndexOf(_, _, _)
IndexOf(s, c, i) ==
    IF i > Len(s) THEN 0
    ELSE IF s[i] = c THEN i
    ELSE IndexOf(s, c, i + 1)

\* s.split(c)[0]
SplitFirst(s, c) ==
    LET i == IndexOf(s, c, 1)
    IN  IF i = 0 THEN s ELSE SubSeq(s, 1, i - 1)

-----------------------------------------------------------------------------
(* Duration text: str(timedelta(seconds=s)).split(".")[0]                   *)

SecondsPerDay == 86400

\* timedelta(seconds=sec, microseconds=us) normalised to days, seconds, microseconds
Timedelta(sec, us) ==
    [days         |-> sec \div SecondsPerDay,
     seconds      |-> sec % SecondsPerDay,
     microseconds |-> us]

\* a mutation of TimedeltaStr: the hours carry the days, and nothing is padded
TimedeltaStrUnpadded(td) ==
    LET mm == td.seconds \div 60
        ss == td.seconds % 60
    IN  Digits(td.days * 24 + mm \div 60) \o <<":">> \o Digits(mm % 60) \o <<":">> \o Digits(ss)

\* timedelta.__str__
TimedeltaStr(td) ==
    LET mm0 == td.seconds \div 60
        ss  == td.seconds % 60
        hh  == mm0 \div 60
        mm  == mm0 % 60
        hms == Digits(hh) \o <<":">> \o Pad2(mm) \o <<":">> \o Pad2(ss)
        day == IF td.days = 0 THEN <<>>
               ELSE Digits(td.days) \o <<" ", "d", "a", "y">>
                    \o (IF td.days # 1 THEN <<"s">> ELSE <<>>) \o <<",", " ">>
        frac == IF td.microseconds = 0 THEN <<>>
                ELSE <<".">> \o PadTo(Digits(td.microseconds), 6)
    IN  day \o hms \o frac

\* the duration text of a listed event and of a query-result event
FormatDuration(sec, us) == SplitFirst(TimedeltaStr(Timedelta(sec, us)), ".")

-----------------------------------------------------------------------------
(* _query_yes_no *)

Yes == <<"y", "e", "s">>
No == <<"n", "o">>

\* the lines a user may type
Lines ==
    { <<>>, <<"y">>, <<"Y">>, <<"y", "e">>, <<"y", "e", "s">>, <<"Y", "e", "S">>,
      <<"n">>, <<"N">>, <<"n", "o">>, <<"N", "o">>,
      <<"x">>, <<"y", "n">>, <<"y", " ">> }

\* str.lower() on the characters the model types
LowerChar(c) ==
    CASE c = "Y" -> "y"
      [] c = "E" -> "e"
      [] c = "S" -> "s"
      [] c = "N" -> "n"
      [] c = "O" -> "o"
      [] OTHER   -> c

Lower(s) == [i \in 1..Len(s) |-> LowerChar(s[i])]

\* valid = {'yes': True, 'y': True, 'ye': True, 'no': False, 'n': False}
ValidKeys == { Yes, <<"y">>, <<"y", "e">>, No, <<"n">> }

Valid(k) == k \in { Yes, <<"y">>, <<"y", "e">> }

\* the bracketed hint, or "ValueError" for a default that is none of the three
PromptHint(d) ==
    IF d = None THEN " [y/n] "
    ELSE IF d = Yes THEN " [Y/n] "
    ELSE IF d = No THEN " [y/N] "
    ELSE "ValueError"

\* a mutation of QueryYesNoChoice: an empty line is taken as "no" whatever the default
QueryYesNoChoiceEmptyIsNo(d, line) ==
    LET choice == Lower(line)
    IN  IF choice = <<>> THEN [returns |-> TRUE, value |-> FALSE]
        ELSE IF choice \in ValidKeys THEN [returns |-> TRUE, value |-> Valid(choice)]
        ELSE [returns |-> FALSE, value |-> FALSE]

\* one pass of the while loop on the line read: return a value, or go round again
QueryYesNoChoice(d, line) ==
    LET choice == Lower(line)
    IN  IF d # None /\ choice = <<>> THEN [returns |-> TRUE, value |-> Valid(d)]
        ELSE IF choice \in ValidKeys THEN [returns |-> TRUE, value |-> Valid(choice)]
        ELSE [returns |-> FALSE, value |-> FALSE]

\* entry of _query_yes_no: the hint is chosen, or ValueError is raised
QueryYesNoEnter ==
    /\ pc = "call"
    /\ IF PromptHint(default) = "ValueError"
       THEN pc' = "error" /\ err' = "ValueError"
       ELSE pc' = "prompt" /\ err' = err
    /\ UNCHANGED <<args, files, stored, calls, out, default, typed, answer, dur, text>>

\* sys.stdout.write(question + prompt)
PromptWrite ==
    /\ pc = "prompt"
    /\ Len(typed) < MaxReads
    /\ out' = Append(out, [kind |-> "prompt", hint |-> PromptHint(default)])
    /\ pc' = "read"
    /\ UNCHANGED <<args, files, stored, calls, err, default, typed, answer, dur, text>>

\* choice = input().lower() and the rest of the loop body
PromptRead ==
    /\ pc = "read"
    /\ \E line \in Lines :
          LET r == QueryYesNoChoice(default, line)
          IN  /\ typed' = Append(typed, line)
              /\ IF r.returns
                 THEN /\ answer' = r.value
                      /\ pc' = "returned"
                      /\ out' = out
                 ELSE /\ answer' = answer
                      /\ pc' = "prompt"
                      /\ out' = Append(out, [kind |-> "reprompt"])
    /\ UNCHANGED <<args, files, stored, calls, err, default, dur, text>>

\* input() at end of file raises EOFError
PromptEOF ==
    /\ pc = "read"
    /\ pc' = "error"
    /\ err' = "EOFError"
    /\ UNCHANGED <<args, files, stored, calls, out, default, typed, answer, dur, text>>

-----------------------------------------------------------------------------
(* The command line after parser.parse_args() *)

NoError == ""

BucketNames == { <<"a">>, <<"b">> }

\* --force takes a value (it is not a store_true flag): absent, empty, or some text
ForceValues == { None, <<>>, <<"1">> }

\* Python truth value of an optional string
Truthy(v) == v # None /\ v # <<>>

\* the default of --limit
DefaultLimit == 10

Limits == (1..MaxLimit) \cup {DefaultLimit}

\* lexemes of a JSON text: braces, colon, comma, "s" a string literal, "1" a number
DataTexts ==
    { <<"{", "}">>,
      <<"{", "s", ":", "1", "}">>,
      <<"{", "s", ":", "{", "}", "}">>,
      <<"{", "s", ":", "1", ",", "s", ":", "s", "}">>,
      <<"1">>,
      <<>>,
      <<"{">>,
      <<"{", "s", "}">>,
      <<"{", "s", ":", "1", ",", "}">>,
      <<"{", "}", "}">>,
      <<"{", "1", ":", "1", "}">> }

Paths == { <<"q">>, <<"r">> }

NoFile == <<"<NoFile>">>

QueryText == <<"t">>

\* the namespace: every field a handler reads, None where the sub-parser has no such field
Namespace(which, bucket, force, data, limit, path, json) ==
    [which |-> which, bucket |-> bucket, force |-> force, data |-> data,
     limit |-> limit, path |-> path, json |-> json]

ParsedArgs ==
    { Namespace(w, None, None, None, DefaultLimit, None, FALSE) :
        w \in {"none", "buckets", "buckets.list", "events"} }
    \cup { Namespace("heartbeat", b, None, d, DefaultLimit, None, FALSE) :
             b \in BucketNames, d \in DataTexts }
    \cup { Namespace("buckets.add", b, None, None, DefaultLimit, None, FALSE) :
             b \in BucketNames }
    \cup { Namespace(w, b, f, None, DefaultLimit, None, FALSE) :
             w \in {"buckets.delete", "events.delete"}, b \in BucketNames, f \in ForceValues }
    \cup { Namespace("events.list", b, None, None, l, None, FALSE) :
             b \in BucketNames, l \in Limits }
    \cup { Namespace("events.add", b, None, d, DefaultLimit, None, FALSE) :
             b \in BucketNames, d \in DataTexts }
    \cup { Namespace("query", None, None, None, DefaultLimit, p, j) :
             p \in Paths, j \in BOOLEAN }

\* a mutation of Dispatch: events.delete is routed to the bucket deletion
DispatchEventsDelete(which) ==
    CASE which = "heartbeat"      -> "CreateHeartbeat"
      [] which = "buckets.list"   -> "ListBuckets"
      [] which = "buckets.add"    -> "CreateBucket"
      [] which = "buckets.delete" -> "DeleteBucket"
      [] which = "events.delete"  -> "DeleteBucket"
      [] which = "events"         -> "events.print_help"
      [] which = "events.list"    -> "ListEvents"
      [] which = "query"          -> "QueryEvents"
      [] OTHER                    -> "print_help"

\* a mutation of Dispatch: events.add is routed to the heartbeat
DispatchEventsAdd(which) ==
    CASE which = "heartbeat"      -> "CreateHeartbeat"
      [] which = "events.add"     -> "CreateHeartbeat"
      [] which = "buckets.list"   -> "ListBuckets"
      [] which = "buckets.add"    -> "CreateBucket"
      [] which = "buckets.delete" -> "DeleteBucket"
      [] which = "events"         -> "events.print_help"
      [] which = "events.list"    -> "ListEvents"
      [] which = "query"          -> "QueryEvents"
      [] OTHER                    -> "print_help"

\* the if/elif chain of main on args.which
Dispatch(which) ==
    CASE which = "heartbeat"      -> "CreateHeartbeat"
      [] which = "buckets.list"   -> "ListBuckets"
      [] which = "buckets.add"    -> "CreateBucket"
      [] which = "buckets.delete" -> "DeleteBucket"
      [] which = "events"         -> "events.print_help"
      [] which = "events.list"    -> "ListEvents"
      [] which = "query"          -> "QueryEvents"
      [] OTHER                    -> "print_help"

-----------------------------------------------------------------------------
(* The server, as the client library presents it *)

\* event i of a sequence whose durations grow by scale seconds
Event(i, scale) == [id |-> i, timestamp |-> i, duration |-> scale * i, data |-> i]

Scales == { 1, 3700 }

Period(n, scale) == [i \in 1..n |-> Event(i, scale)]

Periods == { Period(n, sc) : n \in 0..MaxEvents, sc \in Scales }

\* what client.query may return
QueryResults == UNION { [1..k -> Periods] : k \in 0..MaxPeriods }

\* what the server may hold for a bucket
StoredEvents == { Period(n, 3700) : n \in 0..MaxStored }

\* what client.get_buckets may return
BucketLists == { <<>>, <<<<"a">>>>, <<<<"a">>, <<"b">>>> }

\* limit argument of get_events left at the client's default: no cap within the model
NoLimit == -1

\* client.get_events(bucket, limit): the first limit events, all of them without a limit
GetEvents(events, limit) ==
    IF limit < 0 THEN events ELSE SubSeq(events, 1, Min(limit, Len(events)))

\* a server call: issued, recorded with its outcome and what it returned
Call(op, bucket, ok, reply) == [op |-> op, bucket |-> bucket, ok |-> ok, reply |-> reply]

\* an exception of a server call is not caught anywhere: the process ends with it
Finish(ok) ==
    IF ok THEN pc' = "done" /\ err' = NoError
    ELSE pc' = "error" /\ err' = "TransportError"

-----------------------------------------------------------------------------
(* json.loads and json.dumps *)

RECURSIVE ParseValue(_, _), ParseMembers(_, _)

\* the position after the JSON value that starts at i, or 0 when there is none
ParseValue(s, i) ==
    IF i > Len(s) THEN 0
    ELSE IF s[i] \in {"s", "1"} THEN i + 1
    ELSE IF s[i] = "{"
         THEN IF i + 1 <= Len(s) /\ s[i + 1] = "}" THEN i + 2 ELSE ParseMembers(s, i + 1)
    ELSE 0

\* the position after the closing brace of the members that start at i, or 0
ParseMembers(s, i) ==
    IF i + 1 <= Len(s) /\ s[i] = "s" /\ s[i + 1] = ":"
    THEN LET j == ParseValue(s, i + 2)
         IN  IF j = 0 \/ j > Len(s) THEN 0
             ELSE IF s[j] = "}" THEN j + 1
             ELSE IF s[j] = "," THEN ParseMembers(s, j + 1)
             ELSE 0
    ELSE 0

\* json.loads(data) succeeds: the whole text is one JSON value
JsonLoads(s) == ParseValue(s, 1) = Len(s) + 1

RECURSIVE Concat(_)
Concat(seqs) == IF seqs = <<>> THEN <<>> ELSE Head(seqs) \o Concat(Tail(seqs))

Tok(t) == [t |-> t, key |-> "", val |-> 0]

KeyOrder == <<"id", "timestamp", "duration", "data">>

\* one event as JSON: an object of the keys it has
DumpEvent(e) ==
    <<Tok("{")>>
    \o Concat([i \in 1..Len(KeyOrder) |->
                 IF KeyOrder[i] \in DOMAIN e
                 THEN <<[t |-> "pair", key |-> KeyOrder[i], val |-> e[KeyOrder[i]]]>>
                 ELSE <<>>])
    \o <<Tok("}")>>

DumpPeriod(period) ==
    <<Tok("[")>> \o Concat([i \in 1..Len(period) |-> DumpEvent(period[i])]) \o <<Tok("]")>>

\* json.dumps(result): a list of lists of objects
JsonDumps(result) ==
    <<Tok("[")>> \o Concat([i \in 1..Len(result) |-> DumpPeriod(result[i])]) \o <<Tok("]")>>

-----------------------------------------------------------------------------
(* Rendering of a query result *)

\* period[:10]
ShowLimit == 10

\* dict.pop(key)
Pop(e, key) == [k \in DOMAIN e \ {key} |-> e[k]]

\* a mutation of Shown: every event of the period is listed
ShownAll(period) == period

\* the events of a period that get a line
Shown(period) == SubSeq(period, 1, Min(ShowLimit, Len(period)))

RECURSIVE SumDurations(_)
SumDurations(events) ==
    IF events = <<>> THEN 0 ELSE Head(events).duration + SumDurations(Tail(events))

\* the line of one event: id and timestamp are popped, duration and data are printed
EventLine(event) ==
    LET e == Pop(Pop(event, "id"), "timestamp")
    IN  [kind |-> "event", duration |-> FormatDuration(e.duration, 0), data |-> e.data]

\* the lines of one period: header, the events shown, total
PeriodLines(period) ==
    <<[kind |-> "header", n |-> Len(period)]>>
    \o [i \in 1..Len(Shown(period)) |-> EventLine(Shown(period)[i])]
    \o <<[kind |-> "total", text |-> TimedeltaStr(Timedelta(SumDurations(period), 0))]>>

\* a mutation of Render: the JSON is made of the events the listing shows, id and
\* timestamp popped
RenderPopped(result, print_json) ==
    IF print_json
    THEN <<[kind |-> "json",
            tokens |-> JsonDumps([i \in 1..Len(result) |->
                                    [j \in 1..Len(Shown(result[i])) |->
                                       Pop(Pop(Shown(result[i])[j], "id"), "timestamp")]])]>>
    ELSE Concat([i \in 1..Len(result) |-> PeriodLines(result[i])])

\* the lines QueryEvents prints for a result
Render(result, print_json) ==
    IF print_json
    THEN <<[kind |-> "json", tokens |-> JsonDumps(result)]>>
    ELSE Concat([i \in 1..Len(result) |-> PeriodLines(result[i])])

-----------------------------------------------------------------------------
(* The handlers of AWCLIHelper and the branches of main.  The process starts *)
(* after parse_args and the construction of the client.  The arguments a    *)
(* handler only hands on to the server (type, pulsetime, name, cache,       *)
(* start, end) are left out.                                                *)

PromptVars == <<default, typed, answer>>
FmtVars == <<dur, text>>

\* a mutation of CreateHeartbeat: the heartbeat is sent before the data is parsed
CreateHeartbeatSendsFirst ==
    /\ pc = "start"
    /\ Dispatch(args.which) = "CreateHeartbeat"
    /\ \E ok \in BOOLEAN :
          /\ calls' = Append(calls, Call("heartbeat", args.bucket, ok, <<>>))
          /\ IF ~JsonLoads(args.data)
             THEN pc' = "error" /\ err' = "JSONDecodeError" /\ out' = out
             ELSE out' = Append(out, [kind |-> "heartbeat"]) /\ Finish(ok)
    /\ UNCHANGED <<args, files, stored, PromptVars, FmtVars>>

\* CreateHeartbeat: json.loads, print the event, client.heartbeat
CreateHeartbeat ==
    /\ pc = "start"
    /\ Dispatch(args.which) = "CreateHeartbeat"
    /\ IF ~JsonLoads(args.data)
       THEN /\ pc' = "error"
            /\ err' = "JSONDecodeError"
            /\ UNCHANGED <<calls, out>>
       ELSE \E ok \in BOOLEAN :
               /\ out' = Append(out, [kind |-> "heartbeat"])
               /\ calls' = Append(calls, Call("heartbeat", args.bucket, ok, <<>>))
               /\ Finish(ok)
    /\ UNCHANGED <<args, files, stored, PromptVars, FmtVars>>

\* the lines ListBuckets prints for the buckets returned
BucketLines(buckets) ==
    <<[kind |-> "buckets"]>> \o [i \in 1..Len(buckets) |-> [kind |-> "bucket", name |-> buckets[i]]]

\* ListBuckets: client.get_buckets, then a line per bucket
ListBuckets ==
    /\ pc = "start"
    /\ Dispatch(args.which) = "ListBuckets"
    /\ \E ok \in BOOLEAN, buckets \in BucketLists :
          /\ calls' = Append(calls, Call("get_buckets", None, ok, IF ok THEN buckets ELSE <<>>))
          /\ out' = IF ok THEN out \o BucketLines(buckets) ELSE out
          /\ Finish(ok)
    /\ UNCHANGED <<args, files, stored, PromptVars, FmtVars>>

\* a mutation of CreateBucket: the buckets are listed whether or not the creation succeeded
CreateBucketListsAnyway ==
    /\ pc = "start"
    /\ Dispatch(args.which) = "CreateBucket"
    /\ \E ok1 \in BOOLEAN, ok2 \in BOOLEAN, buckets \in BucketLists :
          /\ calls' = calls \o <<Call("create_bucket", args.bucket, ok1, <<>>),
                                 Call("get_buckets", None, ok2, IF ok2 THEN buckets ELSE <<>>)>>
          /\ out' = IF ok2 THEN out \o BucketLines(buckets) ELSE out
          /\ Finish(ok1 /\ ok2)
    /\ UNCHANGED <<args, files, stored, PromptVars, FmtVars>>

\* CreateBucket: client.create_bucket, then ListBuckets
CreateBucket ==
    /\ pc = "start"
    /\ Dispatch(args.which) = "CreateBucket"
    /\ \E ok1 \in BOOLEAN :
          IF ~ok1
          THEN /\ calls' = Append(calls, Call("create_bucket", args.bucket, FALSE, <<>>))
               /\ out' = out
               /\ Finish(FALSE)
          ELSE \E ok2 \in BOOLEAN, buckets \in BucketLists :
                  /\ calls' = calls \o <<Call("create_bucket", args.bucket, TRUE, <<>>),
                                         Call("get_buckets", None, ok2,
                                              IF ok2 THEN buckets ELSE <<>>)>>
                  /\ out' = IF ok2 THEN out \o BucketLines(buckets) ELSE out
                  /\ Finish(ok2)
    /\ UNCHANGED <<args, files, stored, PromptVars, FmtVars>>

\* a mutation of DeleteBucket: the test of force is inverted
DeleteBucketInverted ==
    /\ pc = "start"
    /\ Dispatch(args.which) = "DeleteBucket"
    /\ IF ~Truthy(args.force)
       THEN \E ok \in BOOLEAN :
               /\ calls' = Append(calls, Call("delete_bucket", args.bucket, ok, <<>>))
               /\ Finish(ok)
               /\ UNCHANGED PromptVars
       ELSE /\ default' = No
            /\ pc' = "prompt"
            /\ UNCHANGED <<calls, err, typed, answer>>
    /\ UNCHANGED <<args, files, stored, out, FmtVars>>

\* DeleteBucket up to the call of _query_yes_no: delete at once when forced
DeleteBucket ==
    /\ pc = "start"
    /\ Dispatch(args.which) = "DeleteBucket"
    /\ IF Truthy(args.force)
       THEN \E ok \in BOOLEAN :
               /\ calls' = Append(calls, Call("delete_bucket", args.bucket, ok, <<>>))
               /\ Finish(ok)
               /\ UNCHANGED PromptVars
       ELSE /\ default' = No
            /\ pc' = "prompt"
            /\ UNCHANGED <<calls, err, typed, answer>>
    /\ UNCHANGED <<args, files, stored, out, FmtVars>>

\* DeleteBucket after _query_yes_no returned: delete when the answer is True
DeleteBucketConfirmed ==
    /\ pc = "returned"
    /\ Dispatch(args.which) = "DeleteBucket"
    /\ IF answer
       THEN \E ok \in BOOLEAN :
               /\ calls' = Append(calls, Call("delete_bucket", args.bucket, ok, <<>>))
               /\ Finish(ok)
       ELSE /\ pc' = "done"
            /\ UNCHANGED <<calls, err>>
    /\ UNCHANGED <<args, files, stored, out, PromptVars, FmtVars>>

\* the line ListEvents prints for an event
ListedLine(e) ==
    [kind |-> "event", timestamp |-> e.timestamp,
     duration |-> FormatDuration(e.duration, 0), data |-> e.data]

\* ListEvents: client.get_events(bucket) without the limit, then a line per event
ListEvents ==
    /\ pc = "start"
    /\ Dispatch(args.which) = "ListEvents"
    /\ \E ok \in BOOLEAN :
          LET events == IF ok THEN GetEvents(stored, NoLimit) ELSE <<>>
          IN  /\ calls' = Append(calls, Call("get_events", args.bucket, ok, events))
              /\ out' = IF ok
                        THEN out \o <<[kind |-> "events"]>>
                                 \o [i \in 1..Len(events) |-> ListedLine(events[i])]
                        ELSE out
              /\ Finish(ok)
    /\ UNCHANGED <<args, files, stored, PromptVars, FmtVars>>

\* the query branch of main and QueryEvents: open and read the file, client.query, render
Query ==
    /\ pc = "start"
    /\ Dispatch(args.which) = "QueryEvents"
    /\ IF files[args.path] = NoFile
       THEN /\ pc' = "error"
            /\ err' = "FileNotFoundError"
            /\ UNCHANGED <<calls, out>>
       ELSE \E ok \in BOOLEAN, result \in QueryResults :
               /\ calls' = Append(calls, Call("query", None, ok, IF ok THEN result ELSE <<>>))
               /\ out' = IF ok THEN out \o Render(result, args.json) ELSE out
               /\ Finish(ok)
    /\ UNCHANGED <<args, files, stored, PromptVars, FmtVars>>

\* parser_events.print_help() and parser.print_help()
PrintHelp ==
    /\ pc = "start"
    /\ Dispatch(args.which) \in {"events.print_help", "print_help"}
    /\ out' = Append(out, [kind |-> Dispatch(args.which)])
    /\ pc' = "done"
    /\ UNCHANGED <<args, files, stored, calls, err, PromptVars, FmtVars>>

-----------------------------------------------------------------------------
(* Specifications *)

\* a duration under test: whole hours up to MaxHours, with minutes, seconds, microseconds
Durations ==
    { [seconds |-> h * 3600 + m * 60 + sec, microseconds |-> us] :
        h \in 0..MaxHours, m \in {0, 1, 59}, sec \in {0, 1, 59}, us \in {0, 900000} }

Idle ==
    /\ calls = <<>>
    /\ out = <<>>
    /\ err = NoError
    /\ typed = <<>>
    /\ answer = None

\* one invocation of aw-cli
Init ==
    /\ pc = "start"
    /\ args \in ParsedArgs
    /\ files \in [Paths -> {NoFile, QueryText}]
    /\ stored \in StoredEvents
    /\ (args.which # "query" => files = [p \in Paths |-> NoFile])
    /\ (args.which # "events.list" => stored = <<>>)
    /\ default = None
    /\ dur = [seconds |-> 0, microseconds |-> 0]
    /\ text = <<>>
    /\ Idle

Next ==
    \/ CreateHeartbeat
    \/ ListBuckets
    \/ CreateBucket
    \/ DeleteBucket
    \/ PromptWrite
    \/ PromptRead
    \/ PromptEOF
    \/ DeleteBucketConfirmed
    \/ ListEvents
    \/ Query
    \/ PrintHelp

Spec == Init /\ [][Next]_vars

\* _query_yes_no called on its own, with any default
InitPrompt ==
    /\ pc = "call"
    /\ default \in {None, Yes, No, <<"m">>}
    /\ args = Namespace("none", None, None, None, DefaultLimit, None, FALSE)
    /\ files = [p \in Paths |-> NoFile]
    /\ stored = <<>>
    /\ dur = [seconds |-> 0, microseconds |-> 0]
    /\ text = <<>>
    /\ Idle

NextPrompt ==
    \/ QueryYesNoEnter
    \/ PromptWrite
    \/ PromptRead
    \/ PromptEOF

SpecPrompt == InitPrompt /\ [][NextPrompt]_vars

\* the duration text computed for any duration
InitFmt ==
    /\ pc = "fmt"
    /\ dur \in Durations
    /\ text = <<>>
    /\ args = Namespace("none", None, None, None, DefaultLimit, None, FALSE)
    /\ files = [p \in Paths |-> NoFile]
    /\ stored = <<>>
    /\ default = None
    /\ Idle

\* str(duration).split(".")[0]
Format ==
    /\ pc = "fmt"
    /\ text' = FormatDuration(dur.seconds, dur.microseconds)
    /\ pc' = "done"
    /\ UNCHANGED <<args, files, stored, calls, out, err, default, typed, answer, dur>>

NextFmt == Format

SpecFmt == InitFmt /\ [][NextFmt]_vars

-----------------------------------------------------------------------------
(* Properties *)

Last(s) == s[Len(s)]

\* the typed lines that mean yes and those that mean no, listed one by one
YesLines == { <<"y">>, <<"Y">>, <<"y", "e">>, <<"y", "e", "s">>, <<"Y", "e", "S">> }
NoLines == { <<"n">>, <<"N">>, <<"n", "o">>, <<"N", "o">> }

\* the data texts that are not JSON, listed one by one
InvalidData ==
    { <<>>, <<"{">>, <<"{", "s", "}">>, <<"{", "s", ":", "1", ",", "}">>,
      <<"{", "}", "}">>, <<"{", "1", ":", "1", "}">> }

CallsOf(op) == SelectSeq(calls, LAMBDA c : c.op = op)

LinesOf(kind) == SelectSeq(out, LAMBDA l : l.kind = kind)

Prompting == pc \in {"prompt", "read", "returned"}

\* C1: DeleteBucket without force, the prompt answered "no" or with an empty line:
\* no delete_bucket call is ever made.  With force: delete_bucket is called exactly
\* once, for the bucket named, and the prompter is never invoked.
C1_DeleteBucketForceOrConfirm ==
    args.which = "buckets.delete" =>
        /\ Truthy(args.force) =>
              /\ ~Prompting
              /\ typed = <<>>
              /\ LinesOf("prompt") = <<>>
              /\ pc # "start" => /\ Len(calls) = 1
                                 /\ calls[1].op = "delete_bucket"
                                 /\ calls[1].bucket = args.bucket
        /\ (~Truthy(args.force) /\ typed # <<>> /\ Last(typed) \in NoLines \cup {<<>>}) =>
              /\ calls = <<>>
              /\ pc \in {"returned", "done"}
        /\ (~Truthy(args.force) /\ pc = "start") => calls = <<>>

C1_Witness ==
    /\ args.which = "buckets.delete"
    /\ args.force = None
    /\ pc = "done"
    /\ Len(typed) = 2
    /\ Last(typed) = <<>>
    /\ calls = <<>>

\* C2: a heartbeat whose data is not JSON, and a query whose file cannot be read,
\* end in an error with no server call made.
C2_InvalidLocalInputNoCall ==
    /\ (args.which = "heartbeat" /\ args.data \in InvalidData) =>
          /\ calls = <<>>
          /\ pc \in {"start", "error"}
    /\ (args.which = "query" /\ files[args.path] = NoFile) =>
          /\ calls = <<>>
          /\ pc \in {"start", "error"}

C2_Witness ==
    /\ args.which = "heartbeat"
    /\ args.data = <<"{", "s", ":", "1", ",", "}">>
    /\ pc = "error"
    /\ err = "JSONDecodeError"

\* C3: events list prints at most `limit` event lines.
C3_ListEventsWithinLimit ==
    (args.which = "events.list" /\ pc = "done") => Len(LinesOf("event")) <= args.limit

\* the first server reply of the invocation
Reply == calls[1].reply

QueryDone(json) == pc = "done" /\ args.which = "query" /\ args.json = json

RECURSIVE SumTo(_, _)
SumTo(period, n) == IF n = 0 THEN 0 ELSE period[n].duration + SumTo(period, n - 1)

\* where the lines of period k start in the listing: each earlier period took a
\* header, min(N, 10) event lines and a total
RECURSIVE Offset(_, _)
Offset(result, k) ==
    IF k = 1 THEN 0 ELSE Offset(result, k - 1) + Min(Len(result[k - 1]), 10) + 2

\* C4: in the human-readable listing every period of N events has a header that
\* reports N, then exactly min(N, 10) event lines, the first events in order, then
\* a total that is the sum of the durations of all N events.
C4_HumanListingPerPeriod ==
    QueryDone(FALSE) =>
        /\ Len(out) = Offset(Reply, Len(Reply) + 1)
        /\ \A k \in 1..Len(Reply) :
              LET period == Reply[k]
                  N == Len(period)
                  off == Offset(Reply, k)
                  shown == Min(N, 10)
              IN  /\ out[off + 1] = [kind |-> "header", n |-> N]
                  /\ \A j \in 1..shown :
                        /\ out[off + 1 + j].kind = "event"
                        /\ out[off + 1 + j].data = period[j].data
                        /\ out[off + 1 + j].duration = FormatDuration(period[j].duration, 0)
                  /\ out[off + shown + 2] =
                        [kind |-> "total", text |-> TimedeltaStr(Timedelta(SumTo(period, N), 0))]

C4_Witness ==
    /\ QueryDone(FALSE)
    /\ Len(Reply) = 2
    /\ Len(Reply[1]) = 11
    /\ Reply[1][11].duration = 11 * 3700
    /\ Len(Reply[2]) = 0
    /\ Len(out) = 14

\* the events of a result, period after period
AllEvents(result) == Concat(result)

\* the key/value pairs of a list of events, event after event
RECURSIVE PairsOf(_)
PairsOf(events) ==
    IF events = <<>> THEN <<>>
    ELSE <<<<"id", Head(events).id>>, <<"timestamp", Head(events).timestamp>>,
           <<"duration", Head(events).duration>>, <<"data", Head(events).data>>>>
         \o PairsOf(Tail(events))

RECURSIVE Braces(_)
Braces(n) == IF n = 0 THEN <<>> ELSE <<"{", "}">> \o Braces(n - 1)

\* the brackets and braces of a serialised result
RECURSIVE ShapeOf(_)
ShapeOf(periods) ==
    IF periods = <<>> THEN <<>>
    ELSE <<"[">> \o Braces(Len(Head(periods))) \o <<"]">> \o ShapeOf(Tail(periods))

\* C5: with --json the output is the result as the server returned it: every
\* period and every event, in order, none cut off after 10, id and timestamp kept.
C5_JsonOutputVerbatim ==
    QueryDone(TRUE) =>
        /\ Len(out) = 1
        /\ out[1].kind = "json"
        /\ LET toks == out[1].tokens
               pairs == SelectSeq(toks, LAMBDA t : t.t = "pair")
               marks == SelectSeq(toks, LAMBDA t : t.t # "pair")
           IN  /\ [i \in 1..Len(pairs) |-> <<pairs[i].key, pairs[i].val>>]
                     = PairsOf(AllEvents(Reply))
               /\ [i \in 1..Len(marks) |-> marks[i].t]
                     = <<"[">> \o ShapeOf(Reply) \o <<"]">>

C5_Witness ==
    /\ QueryDone(TRUE)
    /\ Len(Reply) = 2
    /\ Len(Reply[1]) = 11
    /\ Len(Reply[2]) = 1
    /\ Len(out[1].tokens) = 12 * 6 + 6

\* a line that ends the prompt under default d, and the value it stands for
Decisive(line, d) == line \in YesLines \cup NoLines \/ (line = <<>> /\ d # None)
ValueOf(line, d) ==
    IF line \in YesLines THEN TRUE
    ELSE IF line \in NoLines THEN FALSE
    ELSE d = Yes

\* C6: the prompter returns only on a valid answer: the first line that is a
\* recognised answer, or an empty line under a default of yes or no, decides the
\* value returned; every other line, and an empty line under no default, asks again.
C6_ReturnsFirstValidAnswer ==
    /\ pc = "returned" =>
          /\ typed # <<>>
          /\ Decisive(Last(typed), default)
          /\ answer = ValueOf(Last(typed), default)
          /\ \A i \in 1..(Len(typed) - 1) : ~Decisive(typed[i], default)
          /\ Len(LinesOf("reprompt")) = Len(typed) - 1
    /\ pc # "returned" =>
          /\ answer = None
          /\ \A i \in 1..Len(typed) : ~Decisive(typed[i], default)
          /\ Len(LinesOf("reprompt")) = Len(typed)
    /\ Len(LinesOf("prompt")) =
          Len(typed) + (IF pc = "read" \/ err = "EOFError" THEN 1 ELSE 0)
    /\ pc = "error" =>
          \/ err = "EOFError"
          \/ (err = "ValueError" /\ default \notin {None, Yes, No} /\ out = <<>>)

C6_Witness ==
    /\ pc = "returned"
    /\ default = None
    /\ typed = << <<>>, <<"y", " ">>, <<"Y", "e", "S">> >>
    /\ answer = TRUE

Commands ==
    {"heartbeat", "buckets.list", "buckets.add", "buckets.delete",
     "events.list", "events.delete", "query"}

\* C7 as stated: every command that is carried out made exactly one server call.
C7_ExactlyOneCall ==
    (pc = "done" /\ args.which \in Commands) => Len(calls) = 1

Ops(s) == [i \in 1..Len(s) |-> s[i].op]

\* C7, amended: a command makes no second call, except buckets add, which makes
\* two; no call follows a failed one.  Carried out, heartbeat, buckets list, events
\* list and query have made one call, buckets add two (create, then list), buckets
\* delete one when forced or confirmed and none when declined, events add and
\* events delete and the help none.
C7_CallsPerCommand ==
    /\ Len(calls) <= (IF args.which = "buckets.add" THEN 2 ELSE 1)
    /\ \A i \in 1..(Len(calls) - 1) : calls[i].ok
    /\ (calls # <<>> /\ ~Last(calls).ok) => pc = "error"
    /\ pc = "done" =>
          Ops(calls) =
             CASE args.which = "heartbeat"      -> <<"heartbeat">>
               [] args.which = "buckets.list"   -> <<"get_buckets">>
               [] args.which = "buckets.add"    -> <<"create_bucket", "get_buckets">>
               [] args.which = "buckets.delete" ->
                    IF Truthy(args.force) \/ (typed # <<>> /\ Last(typed) \in YesLines)
                    THEN <<"delete_bucket">> ELSE <<>>
               [] args.which = "events.list"    -> <<"get_events">>
               [] args.which = "query"          -> <<"query">>
               [] OTHER                         -> <<>>

C7_Witness ==
    /\ pc = "done"
    /\ args.which = "buckets.add"
    /\ Len(calls) = 2

\* C8: buckets add issues create_bucket first and get_buckets only after it
\* succeeded; when the creation fails the command ends with the error, nothing is
\* listed and the creation is not tried again.
C8_CreateThenList ==
    args.which = "buckets.add" =>
        /\ Len(CallsOf("create_bucket")) <= 1
        /\ Len(CallsOf("get_buckets")) <= 1
        /\ calls # <<>> =>
              /\ calls[1].op = "create_bucket"
              /\ calls[1].bucket = args.bucket
              /\ ~calls[1].ok =>
                    /\ Len(calls) = 1
                    /\ pc = "error"
                    /\ err = "TransportError"
                    /\ out = <<>>
        /\ CallsOf("get_buckets") # <<>> =>
              /\ Len(calls) = 2
              /\ calls[1].ok
              /\ calls[2].op = "get_buckets"
        /\ pc = "done" => Len(calls) = 2

C8_Witness ==
    /\ args.which = "buckets.add"
    /\ pc = "error"
    /\ Len(calls) = 1
    /\ ~calls[1].ok

HMS(h, m, s) == Digits(h) \o <<":">> \o Pad2(m) \o <<":">> \o Pad2(s)

Formatted == pc = "done" /\ dur.microseconds = 0

\* C9 as stated: s whole seconds are written H:MM:SS with H = s div 3600, however
\* large, MM = (s div 60) mod 60 and SS = s mod 60.
C9_HoursUnbounded ==
    Formatted =>
        text = HMS(dur.seconds \div 3600, (dur.seconds \div 60) % 60, dur.seconds % 60)

\* C9, amended: under one day s whole seconds are written H:MM:SS with
\* H = s div 3600 (0 under one hour), MM = (s div 60) mod 60, SS = s mod 60, the
\* last two on two digits.  From one day on the days are written first, "D day, "
\* or "D days, " with D = s div 86400, and H = (s div 3600) mod 24.
C9_HoursWithinDay ==
    Formatted =>
        LET s == dur.seconds
            d == s \div 86400
            days == IF d = 0 THEN <<>>
                    ELSE IF d = 1 THEN <<"1", " ", "d", "a", "y", ",", " ">>
                    ELSE Digits(d) \o <<" ", "d", "a", "y", "s", ",", " ">>
        IN  /\ text = days \o HMS((s \div 3600) % 24, (s \div 60) % 60, s % 60)
            /\ s = 0 => text = <<"0", ":", "0", "0", ":", "0", "0">>
            /\ s = 3661 => text = <<"1", ":", "0", "1", ":", "0", "1">>

C9_Witness ==
    /\ Formatted
    /\ dur.seconds = 90061
    /\ text = <<"1", " ", "d", "a", "y", ",", " ", "1", ":", "0", "1", ":", "0", "1">>

====
